---- MODULE Spec2Model ----
(***************************************************************************)
(* Model of examples/python_client.py: the three workflow methods of       *)
(* NeuroDocWorkflow (process_document_and_query, batch_queries,            *)
(* analyze_performance) run against a remote API whose answers are chosen  *)
(* by the environment.                                                     *)
(*                                                                         *)
(* One session of a caller is modelled: it calls                           *)
(* process_document_and_query, then batch_queries(queries), then           *)
(* analyze_performance(queries) with the same list.  The remote API is an  *)
(* environment: what it answers to the i-th query of a list is fixed when  *)
(* the list is chosen (behaviour[i]), so that both runners see the same    *)
(* answers.  A step of the model is the stretch of a method between two    *)
(* calls to the remote API.                                                *)
(*                                                                         *)
(* Python values: a dict is a function whose DOMAIN is its key set, None   *)
(* is the string "None", an optional value (a return value, a propagated   *)
(* exception) is a sequence of length 0 or 1, a float quotient a / b is    *)
(* the pair <<a, b>>, and time.time() readings are integer ticks.          *)
(***************************************************************************)
EXTENDS Integers, Sequences, FiniteSets, TLC

\* Longest query list passed to the runners.
MaxLen == 2
\* Largest number of clock ticks that pass between two readings of time.time().
MaxTick == 1

None == "None"

\* main(): the example queries (texts abbreviated).
sample_queries ==
    << "cardiac surgery", "maternity coverage", "dental treatment",
       "cancer treatment", "physiotherapy" >>

\* The query lists a caller passes: slices of sample_queries, as main() passes
\* sample_queries[:3].
QueryLists ==
    { SubSeq(sample_queries, s, s + n - 1) :
        n \in 0..MaxLen, s \in 1..(Len(sample_queries) - MaxLen + 1) }

\* What NeuroDocClient.query_documents does for one query: it returns the
\* parsed JSON body (an object, with or without the keys the workflow reads,
\* or a JSON value that is no object), or _request re-raises the request error.
Responses ==
    { [kind |-> "object", body |-> [Decision |-> "approved", ConfidenceScore |-> 5]],
      [kind |-> "object", body |-> [Decision |-> "rejected", ConfidenceScore |-> 9]],
      [kind |-> "object", body |-> [justification |-> "n/a"]],
      [kind |-> "array"],
      [kind |-> "raise", msg |-> "500 Server Error"] }

\* str(e) of the AttributeError raised by result.get on a JSON array.
NoGetAttribute == "'list' object has no attribute 'get'"

\* What the upload endpoint may answer with status 2xx.
UploadResponses ==
    { [document |-> [id |-> "doc-1"]],
      [document |-> [filename |-> "policy.pdf"]],
      [message |-> "queued"] }

\* dict.get(key, default)
Get(d, key, default) == IF key \in DOMAIN d THEN d[key] ELSE default

\* The float quotient a / b, b # 0, kept as a fraction.
TrueDiv(a, b) == <<a, b>>

VARIABLES
    pc,            \* where the caller's session stands
    queries,       \* the list passed to batch_queries and analyze_performance
    behaviour,     \* behaviour[i]: what the API does for the i-th query
    p_requests,    \* HTTP requests issued by process_document_and_query
    upload_result, \* its local upload_result (optional)
    document_id,   \* its local document_id (optional)
    p_return,      \* its return value (optional)
    p_exc,         \* the exception it propagated (optional)
    b_i,           \* batch_queries: items the for loop has taken from queries
    b_results,     \* batch_queries: local results
    b_calls,       \* batch_queries: queries handed to query_documents so far
    b_return,      \* batch_queries: return value (optional)
    b_exc,         \* batch_queries: exception propagated (optional)
    a_i,           \* analyze_performance: items the for loop has taken
    a_results,     \* analyze_performance: local results
    a_calls,       \* analyze_performance: queries handed to query_documents
    start_time,    \* analyze_performance: local start_time
    query_start,   \* analyze_performance: local query_start
    now,           \* the latest reading of time.time()
    a_return,      \* analyze_performance: return value (optional)
    a_exc          \* analyze_performance: exception propagated (optional)

vars == << pc, queries, behaviour, p_requests, upload_result, document_id,
           p_return, p_exc, b_i, b_results, b_calls, b_return, b_exc, a_i,
           a_results, a_calls, start_time, query_start, now, a_return, a_exc >>

p_vars == << p_requests, upload_result, document_id, p_return, p_exc >>
b_vars == << b_i, b_results, b_calls, b_return, b_exc >>
a_vars == << a_i, a_results, a_calls, start_time, query_start, now, a_return,
            a_exc >>
q_vars == << queries, behaviour >>

Init ==
    /\ pc = "main"
    /\ queries = << >>
    /\ behaviour = << >>
    /\ p_requests = << >>
    /\ upload_result = << >>
    /\ document_id = << >>
    /\ p_return = << >>
    /\ p_exc = << >>
    /\ b_i = 0
    /\ b_results = << >>
    /\ b_calls = << >>
    /\ b_return = << >>
    /\ b_exc = << >>
    /\ a_i = 0
    /\ a_results = << >>
    /\ a_calls = << >>
    /\ start_time = 0
    /\ query_start = 0
    /\ now = 0
    /\ a_return = << >>
    /\ a_exc = << >>

(***************************************************************************)
(* process_document_and_query                                              *)
(***************************************************************************)

\* What requests.post / raise_for_status / response.json() may raise.
UploadErrors == { "ConnectionError", "HTTPError", "JSONDecodeError" }

\* upload_result['document']['id'] raises KeyError unless both keys exist.
HasDocumentId(resp) ==
    /\ "document" \in DOMAIN resp
    /\ "id" \in DOMAIN resp["document"]

\* upload_document: os.path.exists(file_path) is false; FileNotFoundError
\* leaves upload_document and process_document_and_query.
upload_document_missing ==
    /\ pc = "main"
    /\ p_exc' = << "FileNotFoundError" >>
    /\ pc' = "p_raised"
    /\ UNCHANGED << p_requests, upload_result, document_id, p_return >>
    /\ UNCHANGED << q_vars, b_vars, a_vars >>

\* upload_document: the file exists and the POST is sent.
upload_document_post ==
    /\ pc = "main"
    /\ p_requests' = Append(p_requests, "POST /api/upload")
    /\ pc' = "upload"
    /\ UNCHANGED << upload_result, document_id, p_return, p_exc >>
    /\ UNCHANGED << q_vars, b_vars, a_vars >>

\* upload_document: the POST, raise_for_status or response.json() raises; no
\* handler on the way out.
upload_document_error ==
    /\ pc = "upload"
    /\ \E e \in UploadErrors : p_exc' = << e >>
    /\ pc' = "p_raised"
    /\ UNCHANGED << p_requests, upload_result, document_id, p_return >>
    /\ UNCHANGED << q_vars, b_vars, a_vars >>

\* The upload returns a body with a document id: the id is extracted, the
\* workflow sleeps and sends the query.
process_upload_return ==
    /\ pc = "upload"
    /\ \E resp \in UploadResponses :
         /\ HasDocumentId(resp)
         /\ upload_result' = << resp >>
         /\ document_id' = << resp["document"]["id"] >>
    /\ p_requests' = Append(p_requests, "POST /api/query")
    /\ pc' = "query"
    /\ UNCHANGED << p_return, p_exc >>
    /\ UNCHANGED << q_vars, b_vars, a_vars >>

\* Variant of process_upload_keyerror: the id is read with a default
\* (upload_result.get('document', {}).get('id')) and the workflow goes on.
process_upload_default_id ==
    /\ pc = "upload"
    /\ \E resp \in UploadResponses :
         /\ ~ HasDocumentId(resp)
         /\ upload_result' = << resp >>
    /\ document_id' = << None >>
    /\ p_requests' = Append(p_requests, "POST /api/query")
    /\ pc' = "query"
    /\ UNCHANGED << p_return, p_exc >>
    /\ UNCHANGED << q_vars, b_vars, a_vars >>

\* The upload returns a body without ['document']['id']: KeyError.
process_upload_keyerror ==
    /\ pc = "upload"
    /\ \E resp \in UploadResponses :
         /\ ~ HasDocumentId(resp)
         /\ upload_result' = << resp >>
    /\ p_exc' = << "KeyError" >>
    /\ pc' = "p_raised"
    /\ UNCHANGED << p_requests, document_id, p_return >>
    /\ UNCHANGED << q_vars, b_vars, a_vars >>

\* The query returns a JSON object: the result record is returned.
process_query_return ==
    /\ pc = "query"
    /\ \E r \in Responses :
         /\ r.kind = "object"
         /\ p_return' = << [ upload |-> upload_result[1],
                             query |-> r.body,
                             document_id |-> document_id[1] ] >>
    /\ pc' = "p_returned"
    /\ UNCHANGED << p_requests, upload_result, document_id, p_exc >>
    /\ UNCHANGED << q_vars, b_vars, a_vars >>

\* The query raises, or query_result.get fails on a body that is no object.
process_query_error ==
    /\ pc = "query"
    /\ \E r \in Responses :
         /\ r.kind # "object"
         /\ p_exc' = << IF r.kind = "raise" THEN r.msg ELSE NoGetAttribute >>
    /\ pc' = "p_raised"
    /\ UNCHANGED << p_requests, upload_result, document_id, p_return >>
    /\ UNCHANGED << q_vars, b_vars, a_vars >>

(***************************************************************************)
(* batch_queries                                                           *)
(***************************************************************************)

\* The dict appended in the try block.
BatchSuccess(query, result) ==
    [ query |-> query,
      decision |-> Get(result, "Decision", None),
      confidence |-> Get(result, "ConfidenceScore", None),
      success |-> TRUE ]

\* Variant of BatchFailure: the failure dict also carries empty success
\* fields.
BatchFailureWithDecision(query, e) ==
    [ query |-> query, decision |-> None, confidence |-> None, error |-> e,
      success |-> FALSE ]

\* The dict appended in the except block.
BatchFailure(query, e) ==
    [ query |-> query, error |-> e, success |-> FALSE ]

\* str(e) of what the try block raises for this answer of the API.
ErrorText(r) == IF r.kind = "raise" THEN r.msg ELSE NoGetAttribute

\* The caller passes a list; the frame of the previous call is gone.
batch_queries_start ==
    /\ pc \in { "p_returned", "p_raised" }
    /\ \E qs \in QueryLists :
         /\ queries' = qs
         /\ behaviour' \in [ 1..Len(qs) -> Responses ]
    /\ p_requests' = << >>
    /\ upload_result' = << >>
    /\ document_id' = << >>
    /\ p_return' = << >>
    /\ p_exc' = << >>
    /\ b_i' = 0
    /\ b_results' = << >>
    /\ b_calls' = << >>
    /\ pc' = "b_loop"
    /\ UNCHANGED << b_return, b_exc, a_vars >>

\* The for loop takes the next query and calls query_documents.
batch_queries_call ==
    /\ pc = "b_loop"
    /\ b_i < Len(queries)
    /\ b_i' = b_i + 1
    /\ b_calls' = Append(b_calls, queries[b_i + 1])
    /\ pc' = "b_call"
    /\ UNCHANGED << b_results, b_return, b_exc, q_vars, p_vars, a_vars >>

\* query_documents returned a JSON object.
batch_queries_ok ==
    /\ pc = "b_call"
    /\ behaviour[b_i].kind = "object"
    /\ b_results' = Append(b_results, BatchSuccess(queries[b_i], behaviour[b_i].body))
    /\ pc' = "b_loop"
    /\ UNCHANGED << b_i, b_calls, b_return, b_exc, q_vars, p_vars, a_vars >>

\* Variant of batch_queries_except: no try/except around the call, the error
\* leaves batch_queries.
batch_queries_propagate ==
    /\ pc = "b_call"
    /\ behaviour[b_i].kind # "object"
    /\ b_exc' = << ErrorText(behaviour[b_i]) >>
    /\ pc' = "b_raised"
    /\ UNCHANGED << b_i, b_results, b_calls, b_return, q_vars, p_vars, a_vars >>

\* query_documents raised, or result.get raised: except Exception.
batch_queries_except ==
    /\ pc = "b_call"
    /\ behaviour[b_i].kind # "object"
    /\ b_results' = Append(b_results, BatchFailure(queries[b_i], ErrorText(behaviour[b_i])))
    /\ pc' = "b_loop"
    /\ UNCHANGED << b_i, b_calls, b_return, b_exc, q_vars, p_vars, a_vars >>

\* The loop is exhausted: return results.
batch_queries_return ==
    /\ pc = "b_loop"
    /\ b_i = Len(queries)
    /\ b_return' = << b_results >>
    /\ pc' = "b_returned"
    /\ UNCHANGED << b_i, b_results, b_calls, b_exc, q_vars, p_vars, a_vars >>

(***************************************************************************)
(* analyze_performance                                                     *)
(***************************************************************************)

\* Variant of AnalyzeSuccess: the decision defaults to 'Unknown', as in the
\* print of process_document_and_query.
AnalyzeSuccessUnknown(query, result, query_time) ==
    [ query |-> query,
      decision |-> Get(result, "Decision", "Unknown"),
      confidence |-> Get(result, "ConfidenceScore", 0),
      response_time |-> query_time,
      success |-> TRUE ]

\* The dict appended in the try block.
AnalyzeSuccess(query, result, query_time) ==
    [ query |-> query,
      decision |-> Get(result, "Decision", None),
      confidence |-> Get(result, "ConfidenceScore", 0),
      response_time |-> query_time,
      success |-> TRUE ]

\* The dict appended in the except block.
AnalyzeFailure(query, e, query_time) ==
    [ query |-> query, error |-> e, response_time |-> query_time,
      success |-> FALSE ]

\* Variant of Elapsed: the reading itself, the start is not subtracted.
ElapsedNoStart(reading, since) == reading

\* time.time() - start_time, time.time() - query_start
Elapsed(reading, since) == reading - since

\* [r for r in results if r['success']]
SuccessfulQueries(results) == SelectSeq(results, LAMBDA r : r.success)

\* sum(r['confidence'] for r in rs)
RECURSIVE SumConfidence(_)
SumConfidence(rs) ==
    IF rs = << >> THEN 0 ELSE Head(rs).confidence + SumConfidence(Tail(rs))

\* Variant of AverageConfidence: the sum is divided by the number of all
\* outcomes.
AverageConfidenceOverAll(results) ==
    IF SuccessfulQueries(results) # << >>
    THEN TrueDiv(SumConfidence(SuccessfulQueries(results)), Len(results))
    ELSE TrueDiv(0, 1)

\* The 'average_confidence' entry.
AverageConfidence(results) ==
    IF SuccessfulQueries(results) # << >>
    THEN TrueDiv(SumConfidence(SuccessfulQueries(results)),
                 Len(SuccessfulQueries(results)))
    ELSE TrueDiv(0, 1)

\* The 'average_time' entry.
AverageTime(total_time, qs) == TrueDiv(total_time, Len(qs))

\* Variant of SuccessRate: every outcome is counted as successful.
SuccessRateOfAll(results, qs) == TrueDiv(Len(results), Len(qs))

\* The 'success_rate' entry.
SuccessRate(results, qs) == TrueDiv(Len(SuccessfulQueries(results)), Len(qs))

\* The dict analyze_performance returns, for a list that is not empty.
Summary(qs, results, total_time) ==
    [ total_queries |-> Len(qs),
      successful_queries |-> Len(SuccessfulQueries(results)),
      total_time |-> total_time,
      average_time |-> AverageTime(total_time, qs),
      success_rate |-> SuccessRate(results, qs),
      average_confidence |-> AverageConfidence(results),
      results |-> results ]

\* The caller passes the same list; start_time = time.time().
analyze_performance_start ==
    /\ pc = "b_returned"
    /\ \E t \in 0..MaxTick :
         /\ now' = t
         /\ start_time' = t
    /\ a_i' = 0
    /\ a_results' = << >>
    /\ a_calls' = << >>
    /\ pc' = "a_loop"
    /\ UNCHANGED << query_start, a_return, a_exc, q_vars, p_vars, b_vars >>

\* The for loop takes the next query, reads the clock and calls
\* query_documents.
analyze_performance_call ==
    /\ pc = "a_loop"
    /\ a_i < Len(queries)
    /\ a_i' = a_i + 1
    /\ \E d \in 0..MaxTick :
         /\ now' = now + d
         /\ query_start' = now + d
    /\ a_calls' = Append(a_calls, queries[a_i + 1])
    /\ pc' = "a_call"
    /\ UNCHANGED << a_results, start_time, a_return, a_exc, q_vars, p_vars, b_vars >>

\* query_documents returned a JSON object: the clock is read once.
analyze_performance_ok ==
    /\ pc = "a_call"
    /\ behaviour[a_i].kind = "object"
    /\ \E d \in 0..MaxTick :
         /\ now' = now + d
         /\ a_results' = Append(a_results,
                            AnalyzeSuccess(queries[a_i], behaviour[a_i].body,
                                           Elapsed(now + d, query_start)))
    /\ pc' = "a_loop"
    /\ UNCHANGED << a_i, a_calls, start_time, query_start, a_return, a_exc,
                    q_vars, p_vars, b_vars >>

\* Variant of analyze_performance_except: nothing is recorded and the same
\* query is tried again.
analyze_performance_retry ==
    /\ pc = "a_call"
    /\ behaviour[a_i].kind # "object"
    /\ \E d \in 0..MaxTick : now' = now + d
    /\ a_i' = a_i - 1
    /\ pc' = "a_loop"
    /\ UNCHANGED << a_results, a_calls, start_time, query_start, a_return, a_exc,
                    q_vars, p_vars, b_vars >>

\* query_documents raised: the clock is read in the except block.  When
\* result.get raised instead, the clock was read in the try block before
\* (after d ticks) and is read again in the except block (o ticks later).
analyze_performance_except ==
    /\ pc = "a_call"
    /\ behaviour[a_i].kind # "object"
    /\ \E d \in 0..MaxTick :
       \E o \in IF behaviour[a_i].kind = "array" THEN 0..MaxTick ELSE { 0 } :
         /\ now' = now + d + o
         /\ a_results' = Append(a_results,
                            AnalyzeFailure(queries[a_i], ErrorText(behaviour[a_i]),
                                           Elapsed(now + d + o, query_start)))
    /\ pc' = "a_loop"
    /\ UNCHANGED << a_i, a_calls, start_time, query_start, a_return, a_exc,
                    q_vars, p_vars, b_vars >>

\* The loop is exhausted and the list is not empty: the summary is returned.
analyze_performance_return ==
    /\ pc = "a_loop"
    /\ a_i = Len(queries)
    /\ Len(queries) # 0
    /\ \E d \in 0..MaxTick :
         /\ now' = now + d
         /\ a_return' = << Summary(queries, a_results, Elapsed(now + d, start_time)) >>
    /\ pc' = "a_returned"
    /\ UNCHANGED << a_i, a_results, a_calls, start_time, query_start, a_exc,
                    q_vars, p_vars, b_vars >>

\* The loop is exhausted and the list is empty: total_time / len(queries)
\* raises ZeroDivisionError while the returned dict is built.
analyze_performance_zero_division ==
    /\ pc = "a_loop"
    /\ a_i = Len(queries)
    /\ Len(queries) = 0
    /\ \E d \in 0..MaxTick : now' = now + d
    /\ a_exc' = << "ZeroDivisionError" >>
    /\ pc' = "a_raised"
    /\ UNCHANGED << a_i, a_results, a_calls, start_time, query_start, a_return,
                    q_vars, p_vars, b_vars >>

(***************************************************************************)
(* Properties                                                              *)
(***************************************************************************)

\* Equality of two quotients.
RatEq(x, y) == x[2] # 0 /\ y[2] # 0 /\ x[1] * y[2] = y[1] * x[2]

\* The indices of the successful outcomes of a list.
SuccessIndices(rs) == { i \in 1..Len(rs) : rs[i].success }

\* The sum of the confidence values of the successful outcomes among rs[1..n].
RECURSIVE ConfidenceUpTo(_, _)
ConfidenceUpTo(rs, n) ==
    IF n = 0 THEN 0
    ELSE (IF rs[n].success THEN rs[n].confidence ELSE 0) + ConfidenceUpTo(rs, n - 1)

\* The sum of the response_time values of rs[1..n].
RECURSIVE ResponseTimeUpTo(_, _)
ResponseTimeUpTo(rs, n) ==
    IF n = 0 THEN 0 ELSE rs[n].response_time + ResponseTimeUpTo(rs, n - 1)

\* Exactly one of the field groups {decision, confidence} and {error} is
\* among the keys of an outcome record, the one its success flag selects.
ExactlyOneGroup(r) ==
    IF r.success
    THEN {"decision", "confidence"} \subseteq DOMAIN r /\ "error" \notin DOMAIN r
    ELSE "error" \in DOMAIN r /\ {"decision", "confidence"} \cap DOMAIN r = {}

\* Outcome i of the list rs carries query i of the list passed in.
InInputOrder(rs) ==
    /\ Len(rs) = Len(queries)
    /\ \A i \in 1..Len(rs) : rs[i].query = queries[i]

analyze_finished == pc \in { "a_returned", "a_raised" }

\* C1: for every query list and every pattern of failures, batch_queries and
\* the 'results' entry of analyze_performance return exactly one outcome per
\* query, outcome i carrying queries[i].
C1_ExactlyNOutcomesInOrder ==
    /\ b_return # << >> => InInputOrder(b_return[1])
    /\ analyze_finished => a_return # << >> /\ InInputOrder(a_return[1].results)

\* C2: a query whose adapter call raises gets a failure outcome with the
\* error text, no exception leaves the runner because of it, and every
\* remaining query is still executed.
C2_FailureRecordedBatchContinues ==
    /\ \A i \in 1..Len(b_results) :
         behaviour[i].kind = "raise" =>
           /\ ~ b_results[i].success
           /\ "error" \in DOMAIN b_results[i]
           /\ b_results[i].error = behaviour[i].msg
    /\ \A i \in 1..Len(a_results) :
         behaviour[i].kind = "raise" =>
           /\ ~ a_results[i].success
           /\ "error" \in DOMAIN a_results[i]
           /\ a_results[i].error = behaviour[i].msg
    /\ b_exc = << >>
    /\ pc = "b_loop" => Len(b_results) = b_i
    /\ pc = "a_loop" => Len(a_results) = a_i
    /\ b_return # << >> => b_calls = queries /\ Len(b_return[1]) = Len(queries)
    /\ a_exc # << >> => \A i \in 1..Len(queries) : behaviour[i].kind # "raise"
    /\ pc = "a_returned" => a_calls = queries /\ Len(a_return[1].results) = Len(queries)

C2_Witness ==
    /\ pc = "a_returned"
    /\ Len(queries) >= 2
    /\ behaviour[1].kind = "raise"
    /\ ~ b_return[1][1].success /\ b_return[1][2].success
    /\ ~ a_return[1].results[1].success /\ a_return[1].results[2].success

\* C3: for the empty query list the summary is computed without a division
\* by zero and every figure of it is 0.
C3_EmptySummaryIsZero ==
    (analyze_finished /\ queries = << >>) =>
        /\ a_exc = << >>
        /\ a_return # << >>
        /\ a_return[1].total_queries = 0
        /\ a_return[1].successful_queries = 0
        /\ a_return[1].total_time = 0
        /\ RatEq(a_return[1].average_time, TrueDiv(0, 1))
        /\ RatEq(a_return[1].success_rate, TrueDiv(0, 1))
        /\ RatEq(a_return[1].average_confidence, TrueDiv(0, 1))

\* C4: average_confidence is the mean of the confidence of the successful
\* outcomes only, and 0 when no outcome is successful.
C4_AverageConfidenceOverSuccesses ==
    a_return # << >> =>
        LET rs == a_return[1].results
            n  == Cardinality(SuccessIndices(rs))
        IN IF n = 0
           THEN a_return[1].average_confidence[1] = 0
                /\ a_return[1].average_confidence[2] # 0
           ELSE RatEq(a_return[1].average_confidence,
                      << ConfidenceUpTo(rs, Len(rs)), n >>)

C4_Witness ==
    /\ a_return # << >>
    /\ \E i, j \in 1..Len(a_return[1].results) :
         /\ a_return[1].results[i].success
         /\ a_return[1].results[i].confidence > 0
         /\ ~ a_return[1].results[j].success

\* C5 as stated: total_time is the sum of the response_time values of all
\* outcomes, and average_time is total_time / total_queries.
C5_TotalTimeIsSumOfResponseTimes ==
    a_return # << >> =>
        /\ a_return[1].total_time =
             ResponseTimeUpTo(a_return[1].results, Len(a_return[1].results))
        /\ RatEq(a_return[1].average_time,
                 << a_return[1].total_time, a_return[1].total_queries >>)

\* C5 amended: total_time is the clock reading taken after the loop minus
\* the reading taken before it (start_time), whatever the response_time
\* values add up to, and average_time is total_time / total_queries.
C5_TotalTimeIsElapsedSinceStart ==
    a_return # << >> =>
        /\ a_return[1].total_time = now - start_time
        /\ RatEq(a_return[1].average_time,
                 << a_return[1].total_time, Len(queries) >>)
        /\ a_return[1].total_queries = Len(queries)

C5_Witness ==
    /\ a_return # << >>
    /\ start_time > 0
    /\ \E i \in 1..Len(a_return[1].results) :
         ~ a_return[1].results[i].success
    /\ a_return[1].total_time >
         ResponseTimeUpTo(a_return[1].results, Len(a_return[1].results))

\* C6: for a non-empty batch total_queries is the number of input queries,
\* successful_queries the number of outcomes with success = true,
\* success_rate their quotient, and 0 <= successful_queries <= total_queries.
C6_CountsAndSuccessRate ==
    a_return # << >> =>
        /\ a_return[1].total_queries = Len(queries)
        /\ a_return[1].successful_queries =
             Cardinality(SuccessIndices(a_return[1].results))
        /\ RatEq(a_return[1].success_rate,
                 << Cardinality(SuccessIndices(a_return[1].results)), Len(queries) >>)
        /\ 0 <= a_return[1].successful_queries
        /\ a_return[1].successful_queries <= a_return[1].total_queries

C6_Witness ==
    /\ a_return # << >>
    /\ a_return[1].total_queries >= 2
    /\ a_return[1].successful_queries >= 1
    /\ a_return[1].successful_queries < a_return[1].total_queries

\* C7 as stated: every outcome record of either runner has exactly one of
\* the two field groups and carries a response time.
C7_OneGroupAndResponseTime ==
    /\ \A i \in 1..Len(b_results) :
         ExactlyOneGroup(b_results[i]) /\ "response_time" \in DOMAIN b_results[i]
    /\ \A i \in 1..Len(a_results) :
         ExactlyOneGroup(a_results[i]) /\ "response_time" \in DOMAIN a_results[i]

\* C7 amended: every outcome record of either runner has exactly one of the
\* two field groups among its keys; the records of analyze_performance carry
\* response_time, the records of batch_queries have no such key.
C7_OneGroupResponseTimeInAnalyzeOnly ==
    /\ \A i \in 1..Len(b_results) :
         ExactlyOneGroup(b_results[i]) /\ "response_time" \notin DOMAIN b_results[i]
    /\ \A i \in 1..Len(a_results) :
         ExactlyOneGroup(a_results[i]) /\ "response_time" \in DOMAIN a_results[i]

C7_Witness ==
    /\ pc = "a_returned"
    /\ \E i, j \in 1..Len(queries) :
         /\ b_results[i].success /\ ~ b_results[j].success
         /\ a_results[i].success /\ ~ a_results[j].success

\* The calls made so far are the first queries of the list, one call each,
\* in order, and a call is made only when every earlier call has its outcome
\* recorded.
OncePerQueryInOrder(calls, results, in_call) ==
    /\ Len(calls) <= Len(queries)
    /\ \A i \in 1..Len(calls) : calls[i] = queries[i]
    /\ Len(calls) = Len(results) + (IF in_call THEN 1 ELSE 0)

\* C8: the adapter is called exactly once per query, in input order, call
\* i+1 only after call i has returned or raised and its outcome is recorded,
\* and the outcomes are returned only after the last query has completed.
C8_SequentialOncePerQuery ==
    /\ OncePerQueryInOrder(b_calls, b_results, pc = "b_call")
    /\ OncePerQueryInOrder(a_calls, a_results, pc = "a_call")
    /\ b_return # << >> => b_calls = queries /\ Len(b_return[1]) = Len(queries)
    /\ a_return # << >> => a_calls = queries /\ Len(a_return[1].results) = Len(queries)

C8_Witness ==
    /\ pc = "a_call"
    /\ a_i = 2
    /\ ~ a_results[1].success
    /\ b_return # << >>
    /\ Len(b_calls) = 2

\* C9: process_document_and_query sends the query only after the upload has
\* returned and a document id was extracted; when the upload raises or its
\* body has no document id the exception propagates, no query is sent and
\* nothing is returned.
C9_QueryOnlyAfterUpload ==
    /\ (pc = "query" \/ p_return # << >>
        \/ \E k \in 1..Len(p_requests) : p_requests[k] = "POST /api/query") =>
           /\ p_requests = << "POST /api/upload", "POST /api/query" >>
           /\ upload_result # << >>
           /\ HasDocumentId(upload_result[1])
           /\ document_id = << upload_result[1]["document"]["id"] >>
    /\ (pc = "p_raised" /\ document_id = << >>) =>
           /\ p_exc # << >>
           /\ p_return = << >>
           /\ \A k \in 1..Len(p_requests) : p_requests[k] # "POST /api/query"
    /\ p_return # << >> => p_exc = << >>

C9_Witness ==
    /\ pc = "p_raised"
    /\ upload_result # << >>
    /\ ~ HasDocumentId(upload_result[1])
    /\ p_exc = << "KeyError" >>

\* C10: for the same list and the same adapter behaviour the outcomes of
\* batch_queries and the 'results' of analyze_performance have the same
\* length and agree at every index on query, success and decision or error;
\* analyze_performance only adds response_time and puts 0 where batch_queries
\* puts None for a missing confidence.
C10_RunnersAgree ==
    (b_return # << >> /\ a_return # << >>) =>
        LET b == b_return[1]
            a == a_return[1].results
        IN /\ Len(a) = Len(b)
           /\ \A i \in 1..Len(b) :
                /\ DOMAIN a[i] = DOMAIN b[i] \cup { "response_time" }
                /\ "response_time" \notin DOMAIN b[i]
                /\ \A k \in DOMAIN b[i] \ { "confidence" } : a[i][k] = b[i][k]
                /\ "confidence" \in DOMAIN b[i] =>
                     IF "ConfidenceScore" \in DOMAIN behaviour[i].body
                     THEN a[i].confidence = b[i].confidence
                     ELSE a[i].confidence = 0 /\ b[i].confidence = None

C10_Witness ==
    /\ b_return # << >> /\ a_return # << >>
    /\ \E i, j \in 1..Len(queries) :
         /\ b_return[1][i].success
         /\ "ConfidenceScore" \notin DOMAIN behaviour[i].body
         /\ ~ b_return[1][j].success

Next ==
    \/ upload_document_missing
    \/ upload_document_post
    \/ upload_document_error
    \/ process_upload_return
    \/ process_upload_keyerror
    \/ process_query_return
    \/ process_query_error
    \/ batch_queries_start
    \/ batch_queries_call
    \/ batch_queries_ok
    \/ batch_queries_except
    \/ batch_queries_return
    \/ analyze_performance_start
    \/ analyze_performance_call
    \/ analyze_performance_ok
    \/ analyze_performance_except
    \/ analyze_performance_return
    \/ analyze_performance_zero_division

Spec == Init /\ [][Next]_vars
====
